---- MODULE Spec2Model ----
(***************************************************************************)
(* Connection session and action dispatch of the Bluetooth time tracker    *)
(* plugin.  The repository holds the plugin in several variants:           *)
(*   - src/unnamed/part_000: Web Bluetooth session with onReconnect /      *)
(*     onConnect / onCancel / onDisconnect (specification SpecWeb);        *)
(*   - src/unnamed/part_002: Web Bluetooth session without onCancel, with  *)
(*     connect and disconnect commands (specification SpecWeb2);           *)
(*   - src/main.ts: noble session driven by the connect and disconnect     *)
(*     commands, with the action dispatch in the 'data' handler            *)
(*     (specifications SpecNoble and SpecDispatch; SpecSingle is one       *)
(*     session at a time, SpecDecode one session notifying every byte,     *)
(*     SpecSettings one session with edits in the settings tab).           *)
(* src/unnamed/part_001 is the callback-style predecessor of main.ts and   *)
(* is not modelled separately.                                             *)
(* Every asynchronous call of the code (an await, a promise, a callback)   *)
(* is one suspension point: the action that resumes it takes the outcome   *)
(* the transport produced as its input.  A chain of .then callbacks that   *)
(* runs without a pending transport call in between runs in one microtask  *)
(* checkpoint and is one action.                                           *)
(***************************************************************************)
EXTENDS Integers, Sequences, FiniteSets, TLC

\* Number of connect attempts (promise chains) one behaviour may start.
MaxChains == 2

\* Number of connect-command calls whose noble handlers are registered at once.
MaxListeners == 2

\* Largest byte value a notification carries in the model.
MaxByte == 9

Chains == 1..MaxChains

VARIABLES
    state,          \* this.state
    device,         \* this.device: "undefined" or "dev" (the BluetoothDevice)
    cancelScanning, \* module-level cancelScanning: 0 is () => {}, c is the
                    \* closure over the chooser callback of chain c
    chain,          \* the connect attempts: one record per onConnect call
    nextChain,      \* the next unused chain id
    linkUp,         \* the GATT link of the tracker (device.gatt.connected,
                    \* peripheral.state = 'connected')
    listeners,      \* number of connect-command calls whose 'stateChange' and
                    \* 'discover' handlers are registered on noble
    radio,          \* the adapter state noble last reported
    scanning,       \* noble is scanning
    scanTasks,      \* 'stateChange' handlers suspended in startScanningAsync()
    discovered,     \* the tracker was reported since the scan started
    settings,       \* this.settings
    saved,          \* what saveData last wrote: the blob loadData returns
    side,           \* this.side
    emitted,        \* the effects of the notification handled last
    threw,          \* a 'data' handler of that notification threw
    value           \* the byte of that notification (characteristic.value),
                    \* -1 before the first notification

webOnly == <<device, cancelScanning>>

nobleOnly == <<listeners, radio, scanning, scanTasks, discovered>>

settingsVars == <<settings, saved, side, emitted, threw, value>>

vars == <<state, device, cancelScanning, chain, nextChain, linkUp, listeners,
          radio, scanning, scanTasks, discovered, settings, saved, side, emitted,
          threw, value>>

States == {"disconnected", "connecting", "connected", "unavailable"}

\* Position of one connect attempt in the chain of onConnect:
\*   idle       not started
\*   avail      awaiting navigator.bluetooth.getAvailability()
\*   request    requestDevice pending, chooser open
\*   selected   chooser callback called with the device id, promise not yet settled
\*   cancelled  chooser callback called with '', promise not yet settled
\*   gatt       gatt.connect() pending
\*   aborted    gatt.connect() pending, gatt.disconnect() called meanwhile
\*   service    getPrimaryService pending
\*   charac     getCharacteristic pending
\*   notify     startNotifications() pending and returned into the chain
\*   done       the chain ran to its last .then
\*   failed     the chain ran into its .catch
\*   unavail    onConnect returned after getAvailability() was false
\* and of one run of the 'discover' handler of main.ts:
\*   stopScan   awaiting noble.stopScanningAsync()
\*   hung       awaiting stopScanningAsync() whose 'scanStop' listener was
\*              removed by noble.removeAllListeners()
\*   connect    awaiting peripheral.connectAsync()
\*   discover   awaiting discoverSomeServicesAndCharacteristicsAsync
\*   subscribe  the handler returned, the subscribe callback is outstanding
\*   done       the subscribe callback ran
\*   threw      the handler threw out of an await
Pcs == {"idle", "avail", "request", "selected", "cancelled", "gatt", "aborted",
        "service", "charac", "notify", "done", "failed", "unavail",
        "stopScan", "hung", "connect", "discover", "subscribe", "threw"}

InFlight == {"avail", "request", "selected", "cancelled", "gatt", "aborted",
             "service", "charac", "notify", "stopScan", "connect", "discover", "subscribe"}

Steps == {"none", "request", "gatt", "service", "charac", "notify",
          "stopScan", "connect", "discover"}

Notifs == {"none", "pending", "on", "failed", "off"}

NewChain == [pc |-> "idle", failedAt |-> "none", listener |-> FALSE,
             notif |-> "none", cancelled |-> FALSE]

\* The values of the byte a notification carries (getUint8).
Uint8 == 0..255

Sides == {"BF", "BR", "BL", "BB", "TF", "TR", "TL", "TB", "__"}

\* decodeSide without the case 0x08.
decodeSide_NoTB(data) ==
    CASE data = 1 -> "BF"
      [] data = 2 -> "BR"
      [] data = 3 -> "BL"
      [] data = 4 -> "BB"
      [] data = 5 -> "TF"
      [] data = 6 -> "TR"
      [] data = 7 -> "TL"
      [] OTHER -> "__"

decodeSide(data) ==
    CASE data = 1 -> "BF"
      [] data = 2 -> "BR"
      [] data = 3 -> "BL"
      [] data = 4 -> "BB"
      [] data = 5 -> "TF"
      [] data = 6 -> "TR"
      [] data = 7 -> "TL"
      [] data = 8 -> "TB"
      [] OTHER -> "__"

\* An Action; a field the object does not have is the empty string (both
\* are falsy where the fields are read).
NoAction == [command |-> "", template |-> "", actionSet |-> ""]

\* The default set with templates that lack the time placeholder.
DefaultActionSet_NoTime ==
    [s \in Sides |-> [NoAction EXCEPT !.template = s]]

DefaultActionSet ==
    [s \in Sides |-> [NoAction EXCEPT !.template = "{{time}} " \o s]]

DEFAULT_SETTINGS ==
    [deviceName |-> "Timeular Tracker",
     templateTargetFile |-> "Daily/{{date}}.md",
     activeActionSet |-> "default",
     actionSetsByName |-> [n \in {"default"} |-> DefaultActionSet]]

\* Action sets of the persisted blobs the model loads.
WorkActionSet ==
    [s \in Sides |->
        CASE s = "BF" -> [command |-> "app:work", template |-> "{{time}} work",
                          actionSet |-> "default"]
          [] s = "BR" -> [NoAction EXCEPT !.actionSet = "missing"]
          [] s = "BL" -> [NoAction EXCEPT !.command = "app:pause"]
          [] OTHER -> NoAction]

SwitchingDefaultSet ==
    [DefaultActionSet EXCEPT !["TB"] = [NoAction EXCEPT !.actionSet = "work"]]

PartialActionSet ==
    [s \in {"BF", "TB"} |-> [NoAction EXCEPT !.template = "{{time}} " \o s]]

\* Number of persisted blobs the model tries.
NumBlobs == 5

\* What loadData() resolves to: nothing saved yet (1), or a data.json the
\* plugin saved earlier or the user edited.
Blob(i) ==
    CASE i = 1 -> [f \in {} |-> ""]
      [] i = 2 -> [actionSetsByName |->
                      [n \in {"default", "work"} |->
                          IF n = "work" THEN WorkActionSet ELSE SwitchingDefaultSet]]
      [] i = 3 -> [templateTargetFile |-> "Log.md"]
      [] i = 4 -> [activeActionSet |-> "work",
                   actionSetsByName |-> [n \in {"work"} |-> WorkActionSet]]
      [] OTHER -> [deviceName |-> "Tracker 2",
                   actionSetsByName |-> [n \in {"default"} |-> PartialActionSet]]

\* Object.assign({}, DEFAULT_SETTINGS, await this.loadData())
loadSettings(blob) ==
    [f \in DOMAIN DEFAULT_SETTINGS \cup DOMAIN blob |->
        IF f \in DOMAIN blob THEN blob[f] ELSE DEFAULT_SETTINGS[f]]

TypeOK ==
    /\ state \in States
    /\ device \in {"undefined", "dev"}
    /\ cancelScanning \in 0..MaxChains
    /\ nextChain \in 1..(MaxChains + 1)
    /\ linkUp \in BOOLEAN
    /\ \A c \in Chains :
        /\ chain[c].pc \in Pcs
        /\ chain[c].failedAt \in Steps
        /\ chain[c].listener \in BOOLEAN
        /\ chain[c].notif \in Notifs
        /\ chain[c].cancelled \in BOOLEAN
    /\ side \in Sides \cup {"undefined"}
    /\ threw \in BOOLEAN
    /\ value \in Uint8 \cup {-1}

\* onload: the settings are loaded from one of the blobs, nothing is
\* registered, the state is disconnected.
onload(blobs) ==
    /\ state = "disconnected"
    /\ chain = [c \in Chains |-> NewChain]
    /\ nextChain = 1
    /\ linkUp = FALSE
    /\ \E i \in blobs :
        /\ saved = Blob(i)
        /\ settings = loadSettings(Blob(i))
    /\ side = "undefined"
    /\ emitted = << >>
    /\ threw = FALSE
    /\ value = -1
    /\ device = "undefined"
    /\ cancelScanning = 0
    /\ listeners = 0
    /\ radio = "unknown"
    /\ scanning = FALSE
    /\ scanTasks = 0
    /\ discovered = FALSE

\* A fresh install: loadData() finds nothing.
InitWeb == onload({1})

\* gatt.disconnect(): the link goes down, notifications stop, a pending
\* gatt.connect() is aborted.
GattDown(ch) ==
    [c \in Chains |->
        [ch[c] EXCEPT
            !.pc = IF @ = "gatt" THEN "aborted" ELSE @,
            !.notif = IF @ \in {"on", "pending"} THEN "off" ELSE @]]

\* onConnect up to its first await.
onConnect ==
    /\ nextChain \in Chains
    /\ state' = "connecting"
    /\ chain' = [chain EXCEPT ![nextChain].pc = "avail"]
    /\ nextChain' = nextChain + 1
    /\ UNCHANGED <<device, cancelScanning, linkUp>>
    /\ UNCHANGED <<nobleOnly, settingsVars>>

\* cancelScanning() closes the chooser of the chain whose callback it holds
\* when that chooser is still open; in every other case the call does nothing.
onCancel ==
    /\ state' = "disconnected"
    /\ chain' = [c \in Chains |->
                    [chain[c] EXCEPT
                        !.pc = IF c = cancelScanning /\ @ = "request"
                               THEN "cancelled" ELSE @,
                        !.cancelled = @ \/ chain[c].pc \in InFlight]]
    /\ UNCHANGED <<device, cancelScanning, nextChain, linkUp>>
    /\ UNCHANGED <<nobleOnly, settingsVars>>

onDisconnect ==
    /\ IF device = "dev"
       THEN /\ linkUp' = FALSE
            /\ chain' = GattDown(chain)
       ELSE UNCHANGED <<linkUp, chain>>
    /\ device' = "undefined"
    /\ state' = "disconnected"
    /\ UNCHANGED <<cancelScanning, nextChain>>
    /\ UNCHANGED <<nobleOnly, settingsVars>>

\* onReconnect without the connecting branch.
onReconnect_NoCancel ==
    IF state = "disconnected" \/ state = "unavailable"
    THEN onConnect
    ELSE onDisconnect

\* The ribbon icon and the status bar item are both bound to onReconnect.
onReconnect ==
    IF state = "disconnected" \/ state = "unavailable"
    THEN onConnect
    ELSE IF state = "connecting"
         THEN onCancel
         ELSE onDisconnect

\* getAvailability() settles: onConnect resumes after its await.
AvailabilityResolves(c, available) ==
    /\ chain[c].pc = "avail"
    /\ IF ~available
       THEN /\ state' = "unavailable"
            /\ chain' = [chain EXCEPT ![c].pc = "unavail"]
       ELSE /\ chain' = [chain EXCEPT ![c].pc = "request"]
            /\ UNCHANGED state
    /\ UNCHANGED <<device, cancelScanning, nextChain, linkUp>>
    /\ UNCHANGED <<nobleOnly, settingsVars>>

\* The 'select-bluetooth-device' handler treating a list without the
\* tracker as a failure of the session.
selectBluetoothDevice_AbsentFails(c, found) ==
    /\ chain[c].pc = "request"
    /\ cancelScanning' = c
    /\ chain' = [chain EXCEPT ![c].pc = IF found THEN "selected" ELSE @]
    /\ state' = IF found THEN state ELSE "disconnected"
    /\ UNCHANGED <<device, nextChain, linkUp>>
    /\ UNCHANGED <<nobleOnly, settingsVars>>

\* 'select-bluetooth-device' fires for the open chooser of chain c.
selectBluetoothDevice(c, found) ==
    /\ chain[c].pc = "request"
    /\ cancelScanning' = c
    /\ chain' = [chain EXCEPT ![c].pc = IF found THEN "selected" ELSE @]
    /\ UNCHANGED <<state, device, nextChain, linkUp>>
    /\ UNCHANGED <<nobleOnly, settingsVars>>

\* Catch with the state of the availability branch.
Catch_Unavailable(c, step) ==
    /\ state' = "unavailable"
    /\ chain' = [chain EXCEPT ![c].pc = "failed", ![c].failedAt = step]

\* The .catch of the chain.
Catch(c, step) ==
    /\ state' = "disconnected"
    /\ chain' = [chain EXCEPT ![c].pc = "failed", ![c].failedAt = step]

\* requestDevice resolves with the selected device.
RequestResolves(c) ==
    /\ chain[c].pc = "selected"
    /\ device' = "dev"
    /\ chain' = [chain EXCEPT ![c].pc = "gatt"]
    /\ UNCHANGED <<state, cancelScanning, nextChain, linkUp>>
    /\ UNCHANGED <<nobleOnly, settingsVars>>

\* requestDevice rejects: the chooser was cancelled, or the transport
\* refused the request.
RequestRejects(c) ==
    /\ chain[c].pc \in {"request", "cancelled"}
    /\ Catch(c, "request")
    /\ UNCHANGED <<device, cancelScanning, nextChain, linkUp>>
    /\ UNCHANGED <<nobleOnly, settingsVars>>

GattConnectSettles(c, ok) ==
    /\ chain[c].pc \in {"gatt", "aborted"}
    /\ ok => chain[c].pc = "gatt"
    /\ IF ok
       THEN /\ linkUp' = TRUE
            /\ chain' = [chain EXCEPT ![c].pc = "service"]
            /\ UNCHANGED state
       ELSE /\ Catch(c, "gatt")
            /\ UNCHANGED linkUp
    /\ UNCHANGED <<device, cancelScanning, nextChain>>
    /\ UNCHANGED <<nobleOnly, settingsVars>>

GetPrimaryServiceSettles(c, ok) ==
    /\ chain[c].pc = "service"
    /\ ok => linkUp
    /\ IF ok
       THEN /\ chain' = [chain EXCEPT ![c].pc = "charac"]
            /\ UNCHANGED state
       ELSE Catch(c, "service")
    /\ UNCHANGED <<device, cancelScanning, nextChain, linkUp>>
    /\ UNCHANGED <<nobleOnly, settingsVars>>

\* getCharacteristic settles.  On success the next two .then callbacks run:
\* the listener is added, startNotifications() is called and not returned,
\* and the state is set to connected.
GetCharacteristicSettles(c, ok) ==
    /\ chain[c].pc = "charac"
    /\ ok => linkUp
    /\ IF ok
       THEN /\ chain' = [chain EXCEPT ![c].pc = "done",
                                      ![c].listener = TRUE,
                                      ![c].notif = "pending"]
            /\ state' = "connected"
       ELSE Catch(c, "charac")
    /\ UNCHANGED <<device, cancelScanning, nextChain, linkUp>>
    /\ UNCHANGED <<nobleOnly, settingsVars>>

\* startNotifications() settles; its promise is not part of the chain.
StartNotificationsSettles(c, ok) ==
    /\ chain[c].notif = "pending"
    /\ ok => linkUp
    /\ chain' = [chain EXCEPT ![c].notif = IF ok THEN "on" ELSE "failed"]
    /\ UNCHANGED <<state, device, cancelScanning, nextChain, linkUp>>
    /\ UNCHANGED <<nobleOnly, settingsVars>>

\* The tracker drops the link (out of range, battery).  The plugin registers
\* no 'gattserverdisconnected' listener.
DeviceDrops ==
    /\ linkUp
    /\ linkUp' = FALSE
    /\ chain' = GattDown(chain)
    /\ UNCHANGED <<state, device, cancelScanning, nextChain>>
    /\ UNCHANGED <<nobleOnly, settingsVars>>

\* The characteristic of chain c fires 'characteristicvaluechanged'.  The
\* listener is the method onSideChange itself, not bound to the plugin: it
\* runs with the characteristic as this, so the decoded side is stored on
\* the characteristic and this.updateState() raises a TypeError.
onSideChange(c, data) ==
    /\ linkUp
    /\ chain[c].listener
    /\ chain[c].notif = "on"
    /\ threw' = TRUE
    /\ emitted' = << >>
    /\ value' = data
    /\ UNCHANGED <<settings, saved, side>>
    /\ UNCHANGED <<state, chain, nextChain, linkUp>>
    /\ UNCHANGED <<webOnly, nobleOnly>>

NextWeb ==
    \/ onReconnect
    \/ \E c \in Chains, available \in BOOLEAN : AvailabilityResolves(c, available)
    \/ \E c \in Chains, found \in BOOLEAN : selectBluetoothDevice(c, found)
    \/ \E c \in Chains : RequestResolves(c)
    \/ \E c \in Chains : RequestRejects(c)
    \/ \E c \in Chains, ok \in BOOLEAN : GattConnectSettles(c, ok)
    \/ \E c \in Chains, ok \in BOOLEAN : GetPrimaryServiceSettles(c, ok)
    \/ \E c \in Chains, ok \in BOOLEAN : GetCharacteristicSettles(c, ok)
    \/ \E c \in Chains, ok \in BOOLEAN : StartNotificationsSettles(c, ok)
    \/ \E c \in Chains, data \in {1, MaxByte} : onSideChange(c, data)
    \/ DeviceDrops

SpecWeb == InitWeb /\ [][NextWeb]_vars

(***************************************************************************)
(* src/unnamed/part_002: the Web Bluetooth session with commands.  No      *)
(* 'select-bluetooth-device' handler is registered: the host settles       *)
(* requestDevice itself.  The steps gatt.connect() and getPrimaryService   *)
(* are the code of part_000 (GattConnectSettles, GetPrimaryServiceSettles).*)
(***************************************************************************)

\* onload ends with this.onReconnect(): the first attempt is started.
InitWeb2 ==
    /\ state = "connecting"
    /\ chain = [c \in Chains |->
                   IF c = 1 THEN [NewChain EXCEPT !.pc = "avail"] ELSE NewChain]
    /\ nextChain = 2
    /\ linkUp = FALSE
    /\ saved = Blob(1)
    /\ settings = loadSettings(Blob(1))
    /\ side = "undefined"
    /\ emitted = << >>
    /\ threw = FALSE
    /\ value = -1
    /\ device = "undefined"
    /\ cancelScanning = 0
    /\ listeners = 0
    /\ radio = "unknown"
    /\ scanning = FALSE
    /\ scanTasks = 0
    /\ discovered = FALSE

W2_onConnect ==
    /\ nextChain \in Chains
    /\ state' = "connecting"
    /\ chain' = [chain EXCEPT ![nextChain].pc = "avail"]
    /\ nextChain' = nextChain + 1
    /\ UNCHANGED <<device, cancelScanning, linkUp>>
    /\ UNCHANGED <<nobleOnly, settingsVars>>

W2_onDisconnect ==
    /\ state' = "disconnected"
    /\ IF device = "dev"
       THEN /\ linkUp' = FALSE
            /\ chain' = GattDown(chain)
       ELSE UNCHANGED <<linkUp, chain>>
    /\ device' = "undefined"
    /\ UNCHANGED <<cancelScanning, nextChain>>
    /\ UNCHANGED <<nobleOnly, settingsVars>>

\* The ribbon icon and the status bar item.
W2_onReconnect ==
    IF state = "disconnected" \/ state = "unavailable"
    THEN W2_onConnect
    ELSE W2_onDisconnect

\* The connect command is bound to onConnect, the disconnect command to
\* onDisconnect.
W2_connectCommand == W2_onConnect

W2_disconnectCommand == W2_onDisconnect

\* requestDevice settles.
W2_RequestDeviceSettles(c, ok) ==
    /\ chain[c].pc = "request"
    /\ IF ok
       THEN /\ device' = "dev"
            /\ chain' = [chain EXCEPT ![c].pc = "gatt"]
            /\ UNCHANGED state
       ELSE /\ Catch(c, "request")
            /\ UNCHANGED device
    /\ UNCHANGED <<cancelScanning, nextChain, linkUp>>
    /\ UNCHANGED <<nobleOnly, settingsVars>>

\* getCharacteristic settles; on success the listener is added and
\* startNotifications() is returned into the chain.
W2_GetCharacteristicSettles(c, ok) ==
    /\ chain[c].pc = "charac"
    /\ ok => linkUp
    /\ IF ok
       THEN /\ chain' = [chain EXCEPT ![c].pc = "notify",
                                      ![c].listener = TRUE,
                                      ![c].notif = "pending"]
            /\ UNCHANGED state
       ELSE Catch(c, "charac")
    /\ UNCHANGED <<device, cancelScanning, nextChain, linkUp>>
    /\ UNCHANGED <<nobleOnly, settingsVars>>

\* startNotifications() settles.  The link may have gone down meanwhile
\* (notif is off): it rejects.
W2_StartNotificationsSettles(c, ok) ==
    /\ chain[c].pc = "notify"
    /\ ok => linkUp /\ chain[c].notif = "pending"
    /\ IF ok
       THEN /\ chain' = [chain EXCEPT ![c].pc = "done", ![c].notif = "on"]
            /\ state' = "connected"
       ELSE /\ state' = "disconnected"
            /\ chain' = [chain EXCEPT ![c].pc = "failed",
                                      ![c].failedAt = "notify",
                                      ![c].notif = "failed"]
    /\ UNCHANGED <<device, cancelScanning, nextChain, linkUp>>
    /\ UNCHANGED <<nobleOnly, settingsVars>>

NextWeb2 ==
    \/ W2_onReconnect
    \/ W2_connectCommand
    \/ W2_disconnectCommand
    \/ \E c \in Chains, available \in BOOLEAN : AvailabilityResolves(c, available)
    \/ \E c \in Chains, ok \in BOOLEAN : W2_RequestDeviceSettles(c, ok)
    \/ \E c \in Chains, ok \in BOOLEAN : GattConnectSettles(c, ok)
    \/ \E c \in Chains, ok \in BOOLEAN : GetPrimaryServiceSettles(c, ok)
    \/ \E c \in Chains, ok \in BOOLEAN : W2_GetCharacteristicSettles(c, ok)
    \/ \E c \in Chains, ok \in BOOLEAN : W2_StartNotificationsSettles(c, ok)
    \/ \E c \in Chains, data \in {1, MaxByte} : onSideChange(c, data)
    \/ DeviceDrops

SpecWeb2 == InitWeb2 /\ [][NextWeb2]_vars

(***************************************************************************)
(* src/main.ts: the noble session.                                         *)
(***************************************************************************)

InitNoble == onload({1})

\* Callback of the connect command: the state is set and one more
\* 'stateChange' and one more 'discover' handler are registered.
connectCommand ==
    /\ listeners < MaxListeners
    /\ state' = "connecting"
    /\ listeners' = listeners + 1
    /\ UNCHANGED <<chain, nextChain, linkUp, radio, scanning, scanTasks,
                   discovered>>
    /\ UNCHANGED <<webOnly, settingsVars>>

\* Callback of the disconnect command.  removeAllListeners() removes the
\* handlers of the connect command and with them the once-listeners through
\* which pending startScanningAsync() / stopScanningAsync() calls resume.
disconnectCommand ==
    /\ state' = "disconnected"
    /\ scanning' = FALSE
    /\ listeners' = 0
    /\ scanTasks' = 0
    /\ chain' = [c \in Chains |->
                    [chain[c] EXCEPT !.pc = IF @ = "stopScan" THEN "hung" ELSE @]]
    /\ UNCHANGED <<nextChain, linkUp, radio, discovered>>
    /\ UNCHANGED <<webOnly, settingsVars>>

\* Callback of the ribbon icon.
ribbonIcon ==
    IF state = "disconnected"
    THEN connectCommand
    ELSE disconnectCommand

\* noble emits 'stateChange': every registered handler runs up to its await.
stateChange(s) ==
    /\ s # radio
    /\ radio' = s
    /\ IF s = "poweredOn"
       THEN /\ scanTasks + listeners <= MaxListeners
            /\ scanTasks' = scanTasks + listeners
            /\ UNCHANGED <<scanning, linkUp, chain>>
       ELSE /\ scanning' = FALSE
            /\ linkUp' = FALSE
            /\ chain' = GattDown(chain)
            /\ UNCHANGED scanTasks
    /\ UNCHANGED <<state, nextChain, listeners, discovered>>
    /\ UNCHANGED <<webOnly, settingsVars>>

\* startScanningAsync() settles in one 'stateChange' handler.
startScanningSettles(ok) ==
    /\ scanTasks > 0
    /\ ok => radio = "poweredOn"
    /\ scanTasks' = scanTasks - 1
    /\ IF ok
       THEN /\ scanning' = TRUE
            /\ discovered' = FALSE
            /\ state' = "connecting"
       ELSE UNCHANGED <<scanning, discovered, state>>
    /\ UNCHANGED <<chain, nextChain, linkUp, listeners, radio>>
    /\ UNCHANGED <<webOnly, settingsVars>>

\* noble emits 'discover' for a peripheral; matches says whether its
\* advertised name equals settings.deviceName.  Every registered handler
\* runs up to its first await.
discover(matches) ==
    /\ scanning
    /\ IF matches
       THEN /\ ~discovered
            /\ listeners > 0
            /\ nextChain + listeners - 1 \in Chains
            /\ chain' = [c \in Chains |->
                            IF c \in nextChain..(nextChain + listeners - 1)
                            THEN [chain[c] EXCEPT !.pc = "stopScan"]
                            ELSE chain[c]]
            /\ nextChain' = nextChain + listeners
            /\ discovered' = TRUE
       ELSE UNCHANGED <<chain, nextChain, discovered>>
    /\ UNCHANGED <<state, linkUp, listeners, radio, scanning, scanTasks>>
    /\ UNCHANGED <<webOnly, settingsVars>>

\* An await of the handler rejects: the async handler throws, nothing
\* catches it, the rest of the handler does not run.
Throws(c, step) ==
    chain' = [chain EXCEPT ![c].pc = "threw", ![c].failedAt = step]

stopScanningSettles(c, ok) ==
    /\ chain[c].pc = "stopScan"
    /\ IF ok
       THEN /\ scanning' = FALSE
            /\ chain' = [chain EXCEPT ![c].pc = "connect"]
       ELSE /\ Throws(c, "stopScan")
            /\ UNCHANGED scanning
    /\ UNCHANGED <<state, nextChain, linkUp, listeners, radio, scanTasks,
                   discovered>>
    /\ UNCHANGED <<webOnly, settingsVars>>

connectAsyncSettles(c, ok) ==
    /\ chain[c].pc = "connect"
    /\ ok => radio = "poweredOn"
    /\ IF ok
       THEN /\ linkUp' = TRUE
            /\ state' = "disconnected"
            /\ chain' = [chain EXCEPT ![c].pc = "discover"]
       ELSE /\ Throws(c, "connect")
            /\ UNCHANGED <<linkUp, state>>
    /\ UNCHANGED <<nextChain, listeners, radio, scanning, scanTasks, discovered>>
    /\ UNCHANGED <<webOnly, settingsVars>>

\* discoverSomeServicesAndCharacteristicsAsync settles.  ok: it resolved
\* with the characteristic; subscribe is called and the 'data' handler is
\* registered.  Otherwise it rejected, or resolved with no characteristic
\* and characteristics[0].subscribe threw.
discoverCharacteristicsSettles(c, ok) ==
    /\ chain[c].pc = "discover"
    /\ ok => linkUp
    /\ IF ok
       THEN chain' = [chain EXCEPT ![c].pc = "subscribe",
                                   ![c].notif = "pending",
                                   ![c].listener = TRUE]
       ELSE Throws(c, "discover")
    /\ UNCHANGED <<state, nextChain, linkUp, listeners, radio, scanning,
                   scanTasks, discovered>>
    /\ UNCHANGED <<webOnly, settingsVars>>

\* The callback given to subscribe.
subscribeCallback(c, error) ==
    /\ chain[c].pc = "subscribe"
    /\ ~error => linkUp /\ chain[c].notif = "pending"
    /\ IF ~error
       THEN /\ state' = "connected"
            /\ chain' = [chain EXCEPT ![c].pc = "done", ![c].notif = "on"]
       ELSE /\ chain' = [chain EXCEPT ![c].pc = "done", ![c].notif = "failed"]
            /\ UNCHANGED state
    /\ UNCHANGED <<nextChain, linkUp, listeners, radio, scanning, scanTasks,
                   discovered>>
    /\ UNCHANGED <<webOnly, settingsVars>>

\* The tracker drops the link.  No handler of the plugin listens for it.
peripheralDisconnects ==
    /\ linkUp
    /\ linkUp' = FALSE
    /\ chain' = GattDown(chain)
    /\ UNCHANGED <<state, nextChain, listeners, radio, scanning, scanTasks,
                   discovered>>
    /\ UNCHANGED <<webOnly, settingsVars>>

\* The 'data' handler with the command effect before the template effect.
dataHandler_CommandFirst(st, data) ==
    LET sd == decodeSide(data)
        name == st.settings.activeActionSet
        sets == st.settings.actionSetsByName
        s1 == [st EXCEPT !.side = sd]
    IN  IF name \notin DOMAIN sets
        THEN [s1 EXCEPT !.threw = TRUE]
        ELSE IF sd \notin DOMAIN sets[name]
        THEN [s1 EXCEPT !.threw = TRUE]
        ELSE
            LET action == sets[name][sd]
                e1 == IF action.command # ""
                      THEN Append(st.emitted, <<"command", action.command>>)
                      ELSE st.emitted
                e2 == IF action.template # ""
                      THEN Append(e1, <<"template", action.template>>)
                      ELSE e1
                switched == [st.settings EXCEPT !.activeActionSet = action.actionSet]
            IN  IF action.actionSet # ""
                THEN [s1 EXCEPT !.emitted = Append(e2, <<"actionSet", action.actionSet>>),
                                !.settings = switched,
                                !.saved = switched]
                ELSE [s1 EXCEPT !.emitted = e2]

\* The 'data' handler with the switch applied by the save and not by the
\* handler itself: the handler returns with the old set still active.
dataHandler_SwitchDeferred(st, data) ==
    LET sd == decodeSide(data)
        name == st.settings.activeActionSet
        sets == st.settings.actionSetsByName
        s1 == [st EXCEPT !.side = sd]
    IN  IF name \notin DOMAIN sets
        THEN [s1 EXCEPT !.threw = TRUE]
        ELSE IF sd \notin DOMAIN sets[name]
        THEN [s1 EXCEPT !.threw = TRUE]
        ELSE
            LET action == sets[name][sd]
                e1 == IF action.template # ""
                      THEN Append(st.emitted, <<"template", action.template>>)
                      ELSE st.emitted
                e2 == IF action.command # ""
                      THEN Append(e1, <<"command", action.command>>)
                      ELSE e1
                switched == [st.settings EXCEPT !.activeActionSet = action.actionSet]
            IN  IF action.actionSet # ""
                THEN [s1 EXCEPT !.emitted = Append(e2, <<"actionSet", action.actionSet>>),
                                !.saved = switched]
                ELSE [s1 EXCEPT !.emitted = e2]

\* The 'data' handler without the call of saveSettings.
dataHandler_NoSave(st, data) ==
    LET sd == decodeSide(data)
        name == st.settings.activeActionSet
        sets == st.settings.actionSetsByName
        s1 == [st EXCEPT !.side = sd]
    IN  IF name \notin DOMAIN sets
        THEN [s1 EXCEPT !.threw = TRUE]
        ELSE IF sd \notin DOMAIN sets[name]
        THEN [s1 EXCEPT !.threw = TRUE]
        ELSE
            LET action == sets[name][sd]
                e1 == IF action.template # ""
                      THEN Append(st.emitted, <<"template", action.template>>)
                      ELSE st.emitted
                e2 == IF action.command # ""
                      THEN Append(e1, <<"command", action.command>>)
                      ELSE e1
                switched == [st.settings EXCEPT !.activeActionSet = action.actionSet]
            IN  IF action.actionSet # ""
                THEN [s1 EXCEPT !.emitted = Append(e2, <<"actionSet", action.actionSet>>),
                                !.settings = switched]
                ELSE [s1 EXCEPT !.emitted = e2]

\* One run of the 'data' handler on the record st of what it reads and
\* writes.  threw: the handler raised a TypeError (no active set, or no
\* action for the side).
dataHandler(st, data) ==
    LET sd == decodeSide(data)
        name == st.settings.activeActionSet
        sets == st.settings.actionSetsByName
        s1 == [st EXCEPT !.side = sd]
    IN  IF name \notin DOMAIN sets
        THEN [s1 EXCEPT !.threw = TRUE]
        ELSE IF sd \notin DOMAIN sets[name]
        THEN [s1 EXCEPT !.threw = TRUE]
        ELSE
            LET action == sets[name][sd]
                e1 == IF action.template # ""
                      THEN Append(st.emitted, <<"template", action.template>>)
                      ELSE st.emitted
                e2 == IF action.command # ""
                      THEN Append(e1, <<"command", action.command>>)
                      ELSE e1
                switched == [st.settings EXCEPT !.activeActionSet = action.actionSet]
            IN  IF action.actionSet # ""
                THEN [s1 EXCEPT !.emitted = Append(e2, <<"actionSet", action.actionSet>>),
                                !.settings = switched,
                                !.saved = switched]
                ELSE [s1 EXCEPT !.emitted = e2]

\* The characteristic emits 'data': the n registered handlers run in turn;
\* a handler that throws ends the emit.
RECURSIVE Emit(_, _, _)
Emit(st, data, n) ==
    IF n = 0 \/ st.threw
    THEN st
    ELSE Emit(dataHandler(st, data), data, n - 1)

DataListeners == {c \in Chains : chain[c].listener}

\* The tracker notifies a byte.
notification(data) ==
    /\ linkUp
    /\ \E c \in Chains : chain[c].notif = "on"
    /\ LET st == Emit([settings |-> settings, saved |-> saved, side |-> side,
                       emitted |-> << >>, threw |-> FALSE],
                      data, Cardinality(DataListeners))
       IN  /\ settings' = st.settings
           /\ saved' = st.saved
           /\ side' = st.side
           /\ emitted' = st.emitted
           /\ threw' = st.threw
           /\ value' = data
    /\ UNCHANGED <<state, chain, nextChain, linkUp>>
    /\ UNCHANGED <<webOnly, nobleOnly>>

NextNoble ==
    \/ connectCommand
    \/ disconnectCommand
    \/ ribbonIcon
    \/ \E s \in {"poweredOn", "poweredOff"} : stateChange(s)
    \/ \E ok \in BOOLEAN : startScanningSettles(ok)
    \/ \E matches \in BOOLEAN : discover(matches)
    \/ \E c \in Chains, ok \in BOOLEAN : stopScanningSettles(c, ok)
    \/ \E c \in Chains, ok \in BOOLEAN : connectAsyncSettles(c, ok)
    \/ \E c \in Chains, ok \in BOOLEAN : discoverCharacteristicsSettles(c, ok)
    \/ \E c \in Chains, error \in BOOLEAN : subscribeCallback(c, error)
    \/ peripheralDisconnects
    \/ \E data \in {1, MaxByte} : notification(data)

SpecNoble == InitNoble /\ [][NextNoble]_vars

(***************************************************************************)
(* src/main.ts: the action dispatch.  The settings are loaded from every   *)
(* blob of the model and the tracker notifies every byte up to MaxByte;    *)
(* the transport completes every call of the connect sequence.             *)
(***************************************************************************)

InitDispatch == onload(1..NumBlobs)

NextDispatch ==
    \/ connectCommand
    \/ disconnectCommand
    \/ stateChange("poweredOn")
    \/ startScanningSettles(TRUE)
    \/ discover(TRUE)
    \/ \E c \in Chains : stopScanningSettles(c, TRUE)
    \/ \E c \in Chains : connectAsyncSettles(c, TRUE)
    \/ \E c \in Chains : discoverCharacteristicsSettles(c, TRUE)
    \/ \E c \in Chains : subscribeCallback(c, FALSE)
    \/ \E data \in 0..MaxByte : notification(data)

SpecDispatch == InitDispatch /\ [][NextDispatch]_vars

(***************************************************************************)
(* src/main.ts: the action dispatch of one session.  The user runs the     *)
(* connect command when no handler is registered, so the characteristic    *)
(* has one 'data' handler; the transport completes every call.             *)
(***************************************************************************)

NextSingle ==
    \/ listeners = 0 /\ connectCommand
    \/ disconnectCommand
    \/ stateChange("poweredOn")
    \/ startScanningSettles(TRUE)
    \/ discover(TRUE)
    \/ \E c \in Chains : stopScanningSettles(c, TRUE)
    \/ \E c \in Chains : connectAsyncSettles(c, TRUE)
    \/ \E c \in Chains : discoverCharacteristicsSettles(c, TRUE)
    \/ \E c \in Chains : subscribeCallback(c, FALSE)
    \/ \E data \in 0..MaxByte : notification(data)

SpecSingle == InitDispatch /\ [][NextSingle]_vars

(***************************************************************************)
(* src/main.ts: the settings tab.  One session at a time as in SpecSingle, *)
(* and the user edits the two text fields of the tab.                      *)
(***************************************************************************)

\* What the user types into the device name field.
DeviceNames == {"Timeular Tracker", "Tracker 2"}

\* What the user types into the template target file field.
TargetFiles == {"Daily/{{date}}.md", "Log.md"}

\* onChange of the device name field, up to its await: the field of the
\* settings is set and saveSettings() passes the settings to saveData.
deviceNameOnChange(v) ==
    /\ settings' = [settings EXCEPT !.deviceName = v]
    /\ saved' = settings'
    /\ UNCHANGED <<side, emitted, threw, value>>
    /\ UNCHANGED <<state, chain, nextChain, linkUp>>
    /\ UNCHANGED <<webOnly, nobleOnly>>

\* onChange of the template target file field.
templateTargetFileOnChange(v) ==
    /\ settings' = [settings EXCEPT !.templateTargetFile = v]
    /\ saved' = settings'
    /\ UNCHANGED <<side, emitted, threw, value>>
    /\ UNCHANGED <<state, chain, nextChain, linkUp>>
    /\ UNCHANGED <<webOnly, nobleOnly>>

NextSettings ==
    \/ NextSingle
    \/ \E v \in DeviceNames : deviceNameOnChange(v)
    \/ \E v \in TargetFiles : templateTargetFileOnChange(v)

SpecSettings == InitDispatch /\ [][NextSettings]_vars

(***************************************************************************)
(* src/main.ts: the side decoder.  One session on a fresh install, in      *)
(* which the tracker notifies every value a byte can take.                 *)
(***************************************************************************)

NextDecode ==
    \/ listeners = 0 /\ connectCommand
    \/ stateChange("poweredOn")
    \/ startScanningSettles(TRUE)
    \/ discover(TRUE)
    \/ \E c \in Chains : stopScanningSettles(c, TRUE)
    \/ \E c \in Chains : connectAsyncSettles(c, TRUE)
    \/ \E c \in Chains : discoverCharacteristicsSettles(c, TRUE)
    \/ \E c \in Chains : subscribeCallback(c, FALSE)
    \/ \E data \in Uint8 : notification(data)

SpecDecode == InitNoble /\ [][NextDecode]_vars

(***************************************************************************)
(* The claims.                                                             *)
(***************************************************************************)

\* A connect attempt that is in flight, or whose subscription is alive.
Alive(c) ==
    \/ chain[c].pc \in InFlight
    \/ chain[c].pc = "done" /\ chain[c].notif \in {"pending", "on"}

\* The connect attempt started last.
Latest(c) == nextChain = c + 1

\* C1: after a cancel issued while connecting, the state is disconnected
\* until the next connect, and no attempt that was in flight at the cancel
\* later reaches connected, installs a listener or holds an open chooser.
C1_CancelLandsDisconnected ==
    \A c \in Chains :
        chain[c].cancelled =>
            /\ Latest(c) => state = "disconnected"
            /\ chain[c].pc # "done"
            /\ ~chain[c].listener
            /\ chain[c].pc # "request"

\* C2: a step in which the GATT connect, the service discovery, the
\* characteristic discovery or the notification subscription of an attempt
\* fails ends with the state disconnected.
C2_StepFailureDisconnects ==
    [][\A c \in Chains :
        (\/ /\ chain[c].failedAt = "none"
            /\ chain'[c].failedAt \in {"gatt", "service", "charac", "notify",
                                       "connect", "discover"}
         \/ /\ chain[c].notif = "pending"
            /\ chain'[c].notif = "failed")
        => state' = "disconnected"]_vars

\* C3: at most one connect attempt is in flight or alive.
C3_OneAttempt == Cardinality({c \in Chains : Alive(c)}) <= 1

C5_ConnectedOnlyWhenSubscribed ==
    state = "connected" =>
        \E c \in Chains : chain[c].pc = "done" /\ chain[c].notif \in {"on", "off"}

\* The transport reports that there is no radio.
NoRadioReported ==
    \/ \E c \in Chains : chain[c].pc = "avail" /\ chain'[c].pc = "unavail"
    \/ radio' = "poweredOff" /\ radio # "poweredOff" /\ listeners > 0

\* A connect trigger: onConnect, or the connect command.
ConnectTriggered ==
    /\ state' = "connecting"
    /\ nextChain' = nextChain + 1 \/ listeners' = listeners + 1

\* C6: a report of no radio while connecting moves the state to
\* unavailable, and the state stays unavailable until a connect trigger.
C6_UnavailableUntilConnect ==
    [][/\ (NoRadioReported /\ state = "connecting") => state' = "unavailable"
       /\ state = "unavailable" => (state' = "unavailable" \/ ConnectTriggered)]_vars

\* C7: when requestDevice rejects while the state is connecting, the state
\* becomes disconnected.
C7_RequestRejectsDisconnects ==
    [][\A c \in Chains :
        (/\ state = "connecting"
         /\ chain[c].pc \in {"request", "cancelled"}
         /\ chain'[c].pc = "failed")
        => state' = "disconnected"]_vars

\* C7 witness: the only attempt was rejected by the transport with the
\* chooser open and no cancel issued.
C7_Witness ==
    /\ chain[1].failedAt = "request"
    /\ ~chain[1].cancelled
    /\ Latest(1)
    /\ state = "disconnected"

\* C8: an explicit disconnect from connected ends disconnected, with the
\* GATT link released, the device handle and every listener cleared, and no
\* scan or chooser left open.
C8_DisconnectReleases ==
    [][(state = "connected" /\ (onDisconnect \/ disconnectCommand)) =>
        /\ state' = "disconnected"
        /\ ~linkUp'
        /\ device' = "undefined"
        /\ \A c \in Chains : ~chain'[c].listener
        /\ ~scanning'
        /\ \A c \in Chains : chain'[c].pc # "request"]_vars

\* C9: when the tracker drops the link while the state is connected, the
\* state becomes disconnected.
C9_DropDisconnects ==
    [][(state = "connected" /\ (DeviceDrops \/ peripheralDisconnects))
        => state' = "disconnected"]_vars

\* C10: the active action-set name is a key of actionSetsByName.
C10_ActiveSetPresent ==
    settings.activeActionSet \in DOMAIN settings.actionSetsByName

\* The 'data' handler finds an action for the byte: the active set is
\* registered and has an entry for the decoded side.
Resolves(data) ==
    /\ settings.activeActionSet \in DOMAIN settings.actionSetsByName
    /\ decodeSide(data) \in DOMAIN settings.actionSetsByName[settings.activeActionSet]

\* The action the 'data' handler resolves for the byte.
ResolvedAction(data) ==
    settings.actionSetsByName[settings.activeActionSet][decodeSide(data)]

\* C11: a notification whose action names an action set that is not
\* registered leaves the active set name unchanged and raises no exception.
C11_MissingSwitchIsNoOp ==
    [][\A data \in 0..MaxByte :
        (/\ notification(data)
         /\ Resolves(data)
         /\ ResolvedAction(data).actionSet # ""
         /\ ResolvedAction(data).actionSet \notin DOMAIN settings.actionSetsByName)
        => /\ settings'.activeActionSet = settings.activeActionSet
           /\ ~threw']_vars

\* The effects of an action: one per field that is present, in the order
\* template, command, action-set switch.
EffectsOf(action) ==
    (IF action.template # "" THEN << <<"template", action.template>> >> ELSE << >>)
    \o (IF action.command # "" THEN << <<"command", action.command>> >> ELSE << >>)
    \o (IF action.actionSet # "" THEN << <<"actionSet", action.actionSet>> >> ELSE << >>)

\* One 'data' handler is registered on the characteristic.
OneDataHandler == Cardinality(DataListeners) = 1

\* C12: a notification handled by the one registered 'data' handler emits
\* exactly the effects of the fields present in the resolved action, each
\* once, in the order template, command, action-set switch.
C12_EffectsInOrder ==
    [][\A data \in 0..MaxByte :
        (notification(data) /\ OneDataHandler /\ Resolves(data))
            => emitted' = EffectsOf(ResolvedAction(data))]_vars

\* C12 witness: the notification handled last resolved an action with all
\* three fields and emitted the three effects in order.
C12_Witness ==
    /\ OneDataHandler
    /\ ~threw
    /\ Len(emitted) = 3
    /\ emitted[1][1] = "template"
    /\ emitted[2][1] = "command"
    /\ emitted[3][1] = "actionSet"

\* The notification switches to a registered action set.
SwitchesTo(data, target) ==
    /\ Resolves(data)
    /\ ResolvedAction(data).actionSet = target
    /\ target \in DOMAIN settings.actionSetsByName

\* C13: when a notification switches to a registered action set, the set is
\* active when its handler returns: a notification handled next, whatever
\* its byte, emits the effects of the new set's action for its side.
C13_SwitchBeforeNext ==
    [][\A data \in 0..MaxByte, target \in {"default", "work"} :
        (notification(data) /\ OneDataHandler /\ SwitchesTo(data, target))
            => /\ settings'.activeActionSet = target
               /\ \A next \in 0..MaxByte :
                    decodeSide(next) \in DOMAIN settings.actionSetsByName[target]
                        => dataHandler([settings |-> settings', saved |-> saved',
                                        side |-> side', emitted |-> << >>,
                                        threw |-> FALSE], next).emitted
                           = EffectsOf(settings.actionSetsByName[target][decodeSide(next)])]_vars

\* C13 witness: both sets are registered (the default set was the active
\* one at load), side TB switched to the set work, and the next notification
\* (side BL) ran the command that only the work set has for that side.
C13_Witness ==
    /\ OneDataHandler
    /\ {"default", "work"} \subseteq DOMAIN settings.actionSetsByName
    /\ settings.activeActionSet = "work"
    /\ side = "BL"
    /\ emitted = << <<"command", "app:pause">> >>

\* C14: a notification delivered while the state is connected is decoded
\* into this.side and resolved against the active action set: its handler
\* finds the action, emits its effects and does not throw.
C14_EveryNotificationResolved ==
    [][\A data \in 0..MaxByte :
        (/\ state = "connected"
         /\ notification(data) \/ \E c \in Chains : onSideChange(c, data))
        => /\ side' = decodeSide(data)
           /\ Resolves(data)
           /\ emitted' = EffectsOf(ResolvedAction(data))
           /\ ~threw']_vars

\* The faces of the tracker in the order of their bytes 0x01..0x08.
Faces == <<"BF", "BR", "BL", "BB", "TF", "TR", "TL", "TB">>

\* C15: decodeSide maps the bytes 0x01..0x08 to BF, BR, BL, BB, TF, TR, TL,
\* TB, each to a face of its own, and every other byte to "__"; the side
\* decoded from the byte notified last is that value and nothing threw.
C15_DecodeTotal ==
    /\ \A b \in Uint8 :
        decodeSide(b) = IF b \in 1..8 THEN Faces[b] ELSE "__"
    /\ \A a, b \in 1..8 : a # b => decodeSide(a) # decodeSide(b)
    /\ value \in Uint8 =>
        /\ side = (IF value \in 1..8 THEN Faces[value] ELSE "__")
        /\ ~threw

\* C15 witness: the tracker notified the byte 0xFF and the decoded side is
\* the unknown orientation.
C15_Witness ==
    /\ value = 255
    /\ side = "__"
    /\ ~threw

\* Every action set held in settings has an action for all nine sides.
ActionSetsTotal ==
    \A n \in DOMAIN settings.actionSetsByName :
        DOMAIN settings.actionSetsByName[n] = Sides

\* C16: the action sets a notification is resolved with define an action
\* for all nine sides, so the lookup of the active set's action for the
\* decoded side does not fail.
C16_LookupNeverFails ==
    [][\A data \in 0..MaxByte :
        notification(data) =>
            /\ ActionSetsTotal
            /\ settings.activeActionSet \in DOMAIN settings.actionSetsByName
                => decodeSide(data) \in
                     DOMAIN settings.actionSetsByName[settings.activeActionSet]]_vars

\* C17: after the load (saved is the loaded blob until the first
\* notification) each top-level field of the blob overrides the default and
\* each absent field keeps it, and actionSetsByName is merged by key: the
\* sets of the blob are present, and so is every default set whose name the
\* blob does not have.
C17_LoadMergesByKey ==
    value = -1 =>
        /\ \A f \in {"deviceName", "templateTargetFile", "activeActionSet"} :
            settings[f] = IF f \in DOMAIN saved THEN saved[f]
                          ELSE DEFAULT_SETTINGS[f]
        /\ "actionSetsByName" \in DOMAIN saved =>
            \A n \in DOMAIN saved.actionSetsByName :
                /\ n \in DOMAIN settings.actionSetsByName
                /\ settings.actionSetsByName[n] = saved.actionSetsByName[n]
        /\ \A n \in DOMAIN DEFAULT_SETTINGS.actionSetsByName :
            ("actionSetsByName" \in DOMAIN saved
                => n \notin DOMAIN saved.actionSetsByName)
            => /\ n \in DOMAIN settings.actionSetsByName
               /\ settings.actionSetsByName[n]
                    = DEFAULT_SETTINGS.actionSetsByName[n]

\* C18: with the default settings, a notification of byte 0x01 emits one
\* template effect with the template "{{time}} BF" and no other effect, and
\* leaves the settings, the active set default included, as they were.
C18_DefaultByteOne ==
    [][(notification(1) /\ OneDataHandler /\ settings = DEFAULT_SETTINGS)
        => /\ emitted' = << <<"template", "{{time}} BF">> >>
           /\ side' = "BF"
           /\ settings' = settings
           /\ settings'.activeActionSet = "default"]_vars

\* C18 witness: the settings are the defaults and the notification handled
\* last carried byte 0x01 and emitted the one template effect.
C18_Witness ==
    /\ OneDataHandler
    /\ settings = DEFAULT_SETTINGS
    /\ value = 1
    /\ emitted = << <<"template", "{{time}} BF">> >>

\* The chooser of an attempt is open (the scan of requestDevice runs and no
\* listed device matched), and no cancel has been issued.
WebScanningUncancelled ==
    /\ \E c \in Chains : chain[c].pc = "request"
    /\ \A c \in Chains : ~chain[c].cancelled

\* The handlers of the connect command are registered (no disconnect command
\* since) and no 'discover' event has matched the configured device name.
NobleNoMatchYet ==
    /\ listeners > 0
    /\ nextChain = 1

\* C19: while no matching peripheral has been found and no cancel has been
\* issued, the state is connecting.
C19_AbsentStaysConnecting ==
    (WebScanningUncancelled \/ NobleNoMatchYet) => state = "connecting"

\* C19 witness: 'select-bluetooth-device' fired for the open chooser with a
\* list that does not hold the tracker, and the state is connecting.
C19_Witness ==
    /\ chain[1].pc = "request"
    /\ cancelScanning = 1
    /\ ~chain[1].cancelled
    /\ state = "connecting"

\* The transitions of the session state.
AllowedTransitions ==
    {<<"disconnected", "connecting">>, <<"unavailable", "connecting">>,
     <<"connecting", "unavailable">>, <<"connecting", "connected">>,
     <<"connecting", "disconnected">>, <<"connected", "disconnected">>}

\* C20: the state changes only along the allowed transitions; in particular
\* it never goes from disconnected or unavailable to connected.
C20_AllowedTransitions ==
    [][state' # state => <<state, state'>> \in AllowedTransitions]_vars

\* C21: every step that changes the settings (an action-set switch of a
\* notification, an edit in the settings tab) passes the changed settings to
\* saveData in the same step, before any other event is handled.
C21_SaveAfterMutation ==
    [][settings' # settings => saved' = settings']_vars

\* C21 witness: the blob with the sets default and work was loaded, a
\* notification switched to work, the user edited the template target file,
\* and what was saved last is the settings.
C21_Witness ==
    /\ {"default", "work"} \subseteq DOMAIN settings.actionSetsByName
    /\ settings.activeActionSet = "work"
    /\ settings.templateTargetFile = "Log.md"
    /\ settings.deviceName = "Tracker 2"
    /\ saved = settings

\* C22: a notification handled while the state is not connected emits no
\* effect and leaves the settings, the active action set included, as they
\* were.
C22_EffectsOnlyWhenConnected ==
    [][\A data \in 0..MaxByte :
        (notification(data) /\ state # "connected")
            => /\ emitted' = << >>
               /\ settings' = settings]_vars

\* C23: at most one 'stateChange' and one 'discover' handler are registered
\* on noble (the connect command registers them as a pair) and at most one
\* 'data' handler on the characteristic.
C23_OneHandlerEach ==
    /\ listeners <= 1
    /\ Cardinality(DataListeners) <= 1

\* C24: when the state is disconnected or unavailable and no connect
\* attempt is in flight, the device handle is undefined.
C24_DeviceUndefinedWhenIdle ==
    (/\ state \in {"disconnected", "unavailable"}
     /\ \A c \in Chains : chain[c].pc \notin InFlight)
        => device = "undefined"

====
